---- MODULE Spec2Model ----
(***************************************************************************)
(* Model of the project initializer of create-node-express-es6-app        *)
(* (src/bin/cli.js, the module that exports init): argument parsing, the  *)
(* latest-version check, createApp with its name validation, directory    *)
(* safety scan, manifest write, chdir and npm cwd check, and run() with   *)
(* its rollback handler.  The clone-and-install script that precedes it   *)
(* in the same file (lines 1-26) shares no state with it.                  *)
(*                                                                         *)
(* Paths, file names and project names are strings and are taken apart    *)
(* character by character, as path.resolve / path.basename / startsWith   *)
(* and the /\.iml$/ test do.  The file system is the target directory     *)
(* (does it exist, and its entries); everything else on disk is never     *)
(* touched by the program.                                                 *)
(***************************************************************************)
EXTENDS Integers, Sequences, FiniteSets, TLC

\* Largest number of entries the target directory holds before the run.
MaxEntries == 2

----------------------------------------------------------------------------
(* String helpers: String.prototype.startsWith, endsWith, single chars.    *)

startsWith(s, p) == Len(s) >= Len(p) /\ SubSeq(s, 1, Len(p)) = p

endsWith(s, p) == Len(s) >= Len(p) /\ SubSeq(s, Len(s) - Len(p) + 1, Len(s)) = p

charAt(s, i) == SubSeq(s, i, i)

Chars(s) == {charAt(s, i) : i \in 1..Len(s)}

\* Index of the last "/" of p, 0 when there is none.
lastSlash(p) ==
    LET idx == {i \in 1..Len(p) : charAt(p, i) = "/"}
    IN  IF idx = {} THEN 0 ELSE CHOOSE i \in idx : \A j \in idx : j <= i

----------------------------------------------------------------------------
(* node's path module, POSIX flavour, on paths without "." or ".."         *)
(* segments and without trailing slashes.                                  *)

\* path.resolve(name), evaluated while the process is in directory `from`.
pathResolve(from, name) ==
    IF startsWith(name, "/") THEN name ELSE from \o "/" \o name

\* path.basename(p)
basename(p) == SubSeq(p, lastSlash(p) + 1, Len(p))

\* parentOf with the '..' forgotten: path.resolve(p).
parentOf_same(p) == p

\* path.resolve(p, '..')
parentOf(p) ==
    IF lastSlash(p) <= 1 THEN "/" ELSE SubSeq(p, 1, lastSlash(p) - 1)

\* path.join(root, file)
pathJoin(root, file) == root \o "/" \o file

----------------------------------------------------------------------------
(* validate-npm-package-name, the rules that decide validForNewPackages.   *)

Lower == {"a","b","c","d","e","f","g","h","i","j","k","l","m",
          "n","o","p","q","r","s","t","u","v","w","x","y","z"}

Upper == {"A","B","C","D","E","F","G","H","I","J","K","L","M",
          "N","O","P","Q","R","S","T","U","V","W","X","Y","Z"}

Digits == {"0","1","2","3","4","5","6","7","8","9"}

\* Characters encodeURIComponent leaves alone.
UriSafe == Lower \cup Upper \cup Digits \cup {"-","_",".","!","~","*","'","(",")"}

SpecialChars == {"~","'","!","(",")","*"}

Blacklist == {"node_modules", "favicon.ico"}

\* Node core module names among the names the model draws from.
Builtins == {"http", "fs", "path", "os"}

msgIf(cond, msg) == IF cond THEN <<msg>> ELSE <<>>

validateErrors(name) ==
       msgIf(Len(name) = 0, "name length must be greater than zero")
    \o msgIf(startsWith(name, "."), "name cannot start with a period")
    \o msgIf(startsWith(name, "_"), "name cannot start with an underscore")
    \o msgIf(startsWith(name, " ") \/ endsWith(name, " "),
             "name cannot contain leading or trailing spaces")
    \o msgIf(name \in Blacklist, name \o " is a blacklisted name")
    \o msgIf(~(Chars(name) \subseteq UriSafe),
             "name can only contain URL-friendly characters")

validateWarnings(name) ==
       msgIf(name \in Builtins, name \o " is a core module name")
    \o msgIf(Chars(name) \cap Upper # {},
             "name can no longer contain capital letters")
    \o msgIf(Chars(name) \cap SpecialChars # {},
             "name can no longer contain special characters")

validateProjectName(name) ==
    [ validForNewPackages |-> validateErrors(name) = <<>> /\ validateWarnings(name) = <<>>,
      errors   |-> validateErrors(name),
      warnings |-> validateWarnings(name) ]

----------------------------------------------------------------------------
(* Inputs.                                                                  *)

\* process.cwd() when the program starts.
StartCwd == "/home/user"

\* The <project-directory> arguments tried; <<>> is a missing argument.
ProjectArgs == {"my-app", "a/b", "/tmp/app", "express", "x/node-fetch",
                "My App", ".hidden", "http"}

Argv == {<<>>} \cup {<<n>> : n \in ProjectArgs}

\* Entry names the target directory may hold before the run.
EntryNames == {".git", "README.md", "notes.txt", "src", "app.iml",
               "npm-debug.log", "yarn-debug.log.2", "package.json",
               "node_modules"}

Kinds == {"file", "dir"}

UserEntries == {[kind |-> k, by |-> "user"] : k \in Kinds}

\* The directory contents: a function from entry name to [kind, by].
InitialDirs ==
    UNION {[S -> UserEntries] :
             S \in {T \in SUBSET EntryNames : Cardinality(T) <= MaxEntries}}

EmptyDir == [n \in {} |-> [kind |-> "file", by |-> "user"]]

\* fs.readdirSync: the names of the directory, as an array.
RECURSIVE SetToSeq(_)
SetToSeq(S) ==
    IF S = {} THEN <<>>
    ELSE LET x == CHOOSE y \in S : TRUE IN <<x>> \o SetToSeq(S \ {x})

readdirSync(d) == SetToSeq(DOMAIN d)

\* fs.writeFileSync of one file of the directory.
writeEntry(d, file, who) ==
    [n \in (DOMAIN d) \cup {file} |->
        IF n = file THEN [kind |-> "file", by |-> who] ELSE d[n]]

----------------------------------------------------------------------------
(* isSafeToCreateProjectIn: its constants and its pure parts.               *)

validFiles == {".DS_Store", ".git", ".gitattributes", ".gitignore",
               ".gitlab-ci.yml", ".hg", ".hgcheck", ".hgignore", ".idea",
               ".npmignore", ".travis.yml", "docs", "LICENSE", "README.md",
               "mkdocs.yml", "Thumbs.db"}

errorLogFilePatterns == {"npm-debug.log", "yarn-error.log", "yarn-debug.log"}

\* isErrorLog comparing whole names instead of prefixes.
isErrorLog_exact(file) == file \in errorLogFilePatterns

isErrorLog(file) == \E pattern \in errorLogFilePatterns : startsWith(file, pattern)

\* /\.iml$/.test(file)
isIml(file) == endsWith(file, ".iml")

\* isConflict without the .iml filter.
isConflict_noIml(file) == file \notin validFiles /\ ~isErrorLog(file)

isConflict(file) == file \notin validFiles /\ ~isIml(file) /\ ~isErrorLog(file)

\* readdirSync(root) after the three filters.
conflicts(d) == SelectSeq(readdirSync(d), isConflict)

\* The line printed for one conflict: `${file}/` for a directory, file otherwise.
conflictLine(d, file) == IF d[file].kind = "dir" THEN file \o "/" ELSE file

conflictLines(d) == [i \in 1..Len(conflicts(d)) |-> conflictLine(d, conflicts(d)[i])]

\* The directory after the forEach that removes the error logs.
withoutErrorLogs(d) == [n \in {m \in DOMAIN d : ~isErrorLog(m)} |-> d[n]]

errorLogRemovals(d) ==
    LET logs == SelectSeq(readdirSync(d), isErrorLog)
    IN  [i \in 1..Len(logs) |-> [fn |-> "isSafeToCreateProjectIn", op |-> "removeSync", arg |-> logs[i]]]

----------------------------------------------------------------------------
(* checkAppName, install and run: their constants and pure parts.           *)

\* ['express', 'node-fetch'].sort()
dependencies == <<"express", "node-fetch">>

allDependencies == <<"express", "node-fetch">>

knownGeneratedFiles == {"package.json", "node_modules"}

RECURSIVE joinWith(_, _)
joinWith(args, sep) ==
    IF Len(args) = 0 THEN ""
    ELSE IF Len(args) = 1 THEN args[1]
    ELSE args[1] \o sep \o joinWith(Tail(args), sep)

installArgs(deps) ==
    <<"install", "--no-audit", "--save", "--save-exact", "--loglevel", "error">> \o deps

\* install(dependencies) once the child closes with `code`: how the promise settles.
install(deps, code) ==
    IF code # 0
    THEN [settled |-> "rejected", command |-> "npm " \o joinWith(installArgs(deps), " ")]
    ELSE [settled |-> "resolved", command |-> ""]

\* withoutGenerated emptying the directory instead (fs.emptyDirSync).
withoutGenerated_all(d) == [n \in {} |-> d[n]]

\* The directory after the nested forEach that removes the known generated files.
withoutGenerated(d) == [n \in {m \in DOMAIN d : m \notin knownGeneratedFiles} |-> d[n]]

generatedRemovals(d) ==
    LET gen == SelectSeq(readdirSync(d), LAMBDA f : f \in knownGeneratedFiles)
    IN  [i \in 1..Len(gen) |-> [fn |-> "run", op |-> "removeSync", arg |-> gen[i]]]

----------------------------------------------------------------------------
(* The latest-version check: response bodies, JSON.parse, semver.lt.         *)

\* packageJson.version of ./package.json, as <<major, minor, patch>>.
PackageVersion == <<1, 0, 0>>

Null == <<>>

\* Values of the dist-tags `latest` field: versions, a string that is no
\* version, and a missing field.
LatestValues == {<<0, 9, 0>>, <<1, 0, 0>>, <<1, 1, 0>>, <<"next">>, Null}

\* A response body: JSON text that parses to an object with that `latest`
\* field, or text that is not JSON.
Bodies == {[json |-> TRUE, latest |-> v] : v \in LatestValues}
            \cup {[json |-> FALSE, latest |-> Null]}

StatusCodes == {200, 404, 500}

\* What https.get ends in: a response, or an 'error' event.
RegistryOutcomes ==
    {[event |-> "response", statusCode |-> c, body |-> b] : c \in StatusCodes, b \in Bodies}
      \cup {[event |-> "error", statusCode |-> 0, body |-> [json |-> FALSE, latest |-> Null]]}

\* execSync('npm view ... version'): the trimmed output, or a throw.
NpmViewOutcomes ==
    {[threw |-> FALSE, out |-> v] : v \in {<<0, 9, 0>>, <<1, 1, 0>>}}
      \cup {[threw |-> TRUE, out |-> Null]}

semverValid(v) == Len(v) = 3

semverLt(a, b) ==
    \/ a[1] < b[1]
    \/ a[1] = b[1] /\ a[2] < b[2]
    \/ a[1] = b[1] /\ a[2] = b[2] /\ a[3] < b[3]

----------------------------------------------------------------------------
(* checkThatNpmCanReadCwd: the output of `npm config list`.                  *)

cwdPrefix == "; cwd = "

\* What spawn.sync gives when the process is in directory `dirNow`: a throw,
\* or the output's lines: without a cwd line, with the right one, with the
\* start directory or the home directory instead.
NpmConfigOutcomes(dirNow) ==
    {[threw |-> TRUE, lines |-> <<>>],
     [threw |-> FALSE, lines |-> <<"; node version = v18">>],
     [threw |-> FALSE, lines |-> <<"; node version = v18", cwdPrefix \o dirNow>>],
     [threw |-> FALSE, lines |-> <<cwdPrefix \o StartCwd, "; HOME = /home/user">>],
     [threw |-> FALSE, lines |-> <<cwdPrefix \o "/">>]}

\* lines.find(line => line.startsWith(prefix)), <<>> when there is none.
findCwdLine(lines) ==
    LET hits == SelectSeq(lines, LAMBDA l : startsWith(l, cwdPrefix))
    IN  IF Len(hits) = 0 THEN <<>> ELSE <<hits[1]>>

\* The value checkThatNpmCanReadCwd returns.
npmCanReadCwd(out, dirNow) ==
    IF out.threw THEN TRUE
    ELSE IF findCwdLine(out.lines) = <<>> THEN TRUE
    ELSE LET line == findCwdLine(out.lines)[1]
             npmCWD == SubSeq(line, Len(cwdPrefix) + 1, Len(line))
         IN  npmCWD = dirNow

----------------------------------------------------------------------------
(* State.                                                                    *)

VARIABLES
    pc,              \* where the single thread of control is
    argv,            \* <<>> or <<project-directory>>
    latest,          \* the value handed to the .then callback of init
    createAppCalls,  \* how often createApp was invoked
    root,            \* createApp: path.resolve(name)
    appName,         \* createApp: path.basename(root)
    originalDirectory, \* createApp: process.cwd() before the chdir
    cwd,             \* process.cwd()
    dirExists,       \* does the target directory exist
    dir,             \* the target directory's entries
    dirExists0,      \* dirExists before the run
    dir0,            \* dir before the run
    safe,            \* what isSafeToCreateProjectIn returned
    npmOk,           \* what checkThatNpmCanReadCwd returned
    reason,          \* the rejection reason run()'s catch handler receives
    nameMessages,    \* console.error lines of checkAppName
    conflictReport,  \* the conflict lines isSafeToCreateProjectIn printed
    log,             \* other console lines
    spawned,         \* command lines of the child processes started
    trace,           \* file-system and chdir calls made, in order
    ending,          \* how the process ended
    exitCode         \* its exit status once pc = "exited"

vars == <<pc, argv, latest, createAppCalls, root, appName, originalDirectory,
          cwd, dirExists, dir, dirExists0, dir0, safe, npmOk, reason,
          nameMessages, conflictReport, log, spawned, trace, ending, exitCode>>

fsVars == <<cwd, dirExists, dir, trace>>

appVars == <<root, appName, originalDirectory, safe, npmOk, reason,
             nameMessages, conflictReport>>

Init ==
    /\ pc = "init"
    /\ argv = <<>>
    /\ latest = Null
    /\ createAppCalls = 0
    /\ root = ""
    /\ appName = ""
    /\ originalDirectory = ""
    /\ cwd = StartCwd
    /\ dirExists \in BOOLEAN
    /\ dir \in (IF dirExists THEN InitialDirs ELSE {EmptyDir})
    /\ dirExists0 = dirExists
    /\ dir0 = dir
    /\ safe = "notRun"
    /\ npmOk = "notRun"
    /\ reason = [command |-> ""]
    /\ nameMessages = <<>>
    /\ conflictReport = <<>>
    /\ log = <<>>
    /\ spawned = <<>>
    /\ trace = <<>>
    /\ ending = "running"
    /\ exitCode = 0

\* process.exit(code)
processExit(code) ==
    /\ pc' = "exited"
    /\ ending' = "exit"
    /\ exitCode' = code

\* An exception thrown out of an event listener: node prints it and exits 1.
uncaughtException ==
    /\ pc' = "exited"
    /\ ending' = "uncaughtException"
    /\ exitCode' = 1

\* An exception thrown inside the .then callback of init rejects a promise
\* nobody handles: node 15 and later exit 1, earlier versions warn and the
\* process ends with status 0 once nothing is left to run.
unhandledRejection ==
    /\ pc' = "exited"
    /\ ending' = "unhandledRejection"
    /\ exitCode' \in {0, 1}

----------------------------------------------------------------------------
(* init and the latest-version check.                                        *)

\* init(): parse the arguments; without a project directory print the usage
\* and exit 1, else start checkForLatestVersion().
init ==
    /\ pc = "init"
    /\ \E a \in Argv :
         /\ argv' = a
         /\ IF a = <<>>
            THEN /\ log' = log \o <<"Please specify the project directory:">>
                 /\ processExit(1)
            ELSE /\ pc' = "checkForLatestVersion"
                 /\ UNCHANGED <<log, ending, exitCode>>
    /\ UNCHANGED <<latest, createAppCalls, spawned>>
    /\ UNCHANGED fsVars
    /\ UNCHANGED <<dirExists0, dir0>>
    /\ UNCHANGED appVars

\* checkForLatestVersion(): the https.get callbacks.  A 200 resolves with
\* JSON.parse(body).latest, computed inside the 'end' listener; another
\* status and an 'error' event reject.
checkForLatestVersion ==
    /\ pc = "checkForLatestVersion"
    /\ \E o \in RegistryOutcomes :
         IF o.event = "response" /\ o.statusCode = 200
         THEN IF o.body.json
              THEN /\ latest' = o.body.latest
                   /\ pc' = "then"
                   /\ UNCHANGED <<ending, exitCode>>
              ELSE /\ uncaughtException
                   /\ UNCHANGED latest
         ELSE /\ pc' = "catch"
              /\ UNCHANGED <<latest, ending, exitCode>>
    /\ UNCHANGED <<argv, createAppCalls, log, spawned>>
    /\ UNCHANGED fsVars
    /\ UNCHANGED <<dirExists0, dir0>>
    /\ UNCHANGED appVars

\* The .catch callback of init: execSync('npm view ... version'), null when
\* it throws.
npmViewFallback ==
    /\ pc = "catch"
    /\ \E o \in NpmViewOutcomes :
         latest' = IF o.threw THEN Null ELSE o.out
    /\ spawned' = Append(spawned, "npm view create-node-express-es6-app version")
    /\ pc' = "then"
    /\ UNCHANGED <<argv, createAppCalls, log, ending, exitCode>>
    /\ UNCHANGED fsVars
    /\ UNCHANGED <<dirExists0, dir0>>
    /\ UNCHANGED appVars

\* The .then callback of init up to the call of createApp, and createApp's
\* first two statements.  semver.lt throws on a string that is no version.
thenCreateApp ==
    /\ pc = "then"
    /\ IF latest # Null /\ ~semverValid(latest)
       THEN /\ unhandledRejection
            /\ UNCHANGED <<log, createAppCalls, root, appName>>
       ELSE /\ log' = IF latest # Null /\ semverLt(PackageVersion, latest)
                      THEN log \o <<"You are running an outdated version">>
                      ELSE log
            /\ createAppCalls' = createAppCalls + 1
            /\ root' = pathResolve(cwd, argv[1])
            /\ appName' = basename(pathResolve(cwd, argv[1]))
            /\ pc' = "checkAppName"
            /\ UNCHANGED <<ending, exitCode>>
    /\ UNCHANGED <<argv, latest, spawned, originalDirectory, safe, npmOk, reason,
                   nameMessages, conflictReport>>
    /\ UNCHANGED fsVars
    /\ UNCHANGED <<dirExists0, dir0>>

----------------------------------------------------------------------------
(* createApp, statement by statement.                                        *)

ev(fn, op, arg) == [fn |-> fn, op |-> op, arg |-> arg]

\* checkAppName without the check against the dependency names.
checkAppName_noDependencyCheck ==
    /\ pc = "checkAppName"
    /\ LET validationResult == validateProjectName(appName)
           all == validationResult.errors \o validationResult.warnings
       IN  IF ~validationResult.validForNewPackages
           THEN /\ nameMessages' = [i \in 1..Len(all) |-> "  * " \o all[i]]
                /\ processExit(1)
           ELSE /\ pc' = "ensureDirSync"
                /\ UNCHANGED <<nameMessages, ending, exitCode>>
    /\ UNCHANGED <<argv, latest, createAppCalls, log, spawned>>
    /\ UNCHANGED <<root, appName, originalDirectory, safe, npmOk, reason, conflictReport>>
    /\ UNCHANGED fsVars
    /\ UNCHANGED <<dirExists0, dir0>>

\* checkAppName(appName): exit 1 after printing every error and warning of
\* the naming policy, or the message about the dependency of the same name.
checkAppName ==
    /\ pc = "checkAppName"
    /\ LET validationResult == validateProjectName(appName)
           all == validationResult.errors \o validationResult.warnings
       IN  IF ~validationResult.validForNewPackages
           THEN /\ nameMessages' = [i \in 1..Len(all) |-> "  * " \o all[i]]
                /\ processExit(1)
           ELSE IF \E i \in 1..Len(dependencies) : dependencies[i] = appName
           THEN /\ nameMessages' = <<"a dependency with the same name exists">>
                /\ processExit(1)
           ELSE /\ pc' = "ensureDirSync"
                /\ UNCHANGED <<nameMessages, ending, exitCode>>
    /\ UNCHANGED <<argv, latest, createAppCalls, log, spawned>>
    /\ UNCHANGED <<root, appName, originalDirectory, safe, npmOk, reason, conflictReport>>
    /\ UNCHANGED fsVars
    /\ UNCHANGED <<dirExists0, dir0>>

\* fs.ensureDirSync(name): create the directory when it is absent.
ensureDirSync ==
    /\ pc = "ensureDirSync"
    /\ dirExists' = TRUE
    /\ trace' = IF dirExists THEN trace
                ELSE Append(trace, ev("createApp", "ensureDirSync", root))
    /\ pc' = "isSafeToCreateProjectIn"
    /\ UNCHANGED <<argv, latest, createAppCalls, log, spawned, ending, exitCode>>
    /\ UNCHANGED <<cwd, dir, dirExists0, dir0>>
    /\ UNCHANGED appVars

\* isSafeToCreateProjectIn with createApp going on whatever it returns.
isSafeToCreateProjectIn_resultIgnored ==
    /\ pc = "isSafeToCreateProjectIn"
    /\ IF Len(conflicts(dir)) > 0
       THEN /\ conflictReport' = conflictLines(dir)
            /\ safe' = "unsafe"
            /\ UNCHANGED <<dir, trace>>
       ELSE /\ dir' = withoutErrorLogs(dir)
            /\ trace' = trace \o errorLogRemovals(dir)
            /\ safe' = "safe"
            /\ UNCHANGED conflictReport
    /\ pc' = "writeFileSync"
    /\ UNCHANGED <<argv, latest, createAppCalls, log, spawned, ending, exitCode>>
    /\ UNCHANGED <<root, appName, originalDirectory, npmOk, reason, nameMessages>>
    /\ UNCHANGED <<cwd, dirExists, dirExists0, dir0>>

\* isSafeToCreateProjectIn(root, name) and the `if` of createApp around it:
\* with conflicts, print them and return false (createApp exits 1); without,
\* remove the error logs and return true.
isSafeToCreateProjectIn ==
    /\ pc = "isSafeToCreateProjectIn"
    /\ IF Len(conflicts(dir)) > 0
       THEN /\ conflictReport' = conflictLines(dir)
            /\ safe' = "unsafe"
            /\ processExit(1)
            /\ UNCHANGED <<dir, trace>>
       ELSE /\ dir' = withoutErrorLogs(dir)
            /\ trace' = trace \o errorLogRemovals(dir)
            /\ safe' = "safe"
            /\ pc' = "writeFileSync"
            /\ UNCHANGED <<conflictReport, ending, exitCode>>
    /\ UNCHANGED <<argv, latest, createAppCalls, log, spawned>>
    /\ UNCHANGED <<root, appName, originalDirectory, npmOk, reason, nameMessages>>
    /\ UNCHANGED <<cwd, dirExists, dirExists0, dir0>>

\* fs.writeFileSync(path.join(root, 'package.json'), ...)
writeFileSync ==
    /\ pc = "writeFileSync"
    /\ dir' = writeEntry(dir, "package.json", "createApp")
    /\ trace' = Append(trace, ev("createApp", "writeFileSync", pathJoin(root, "package.json")))
    /\ pc' = "chdir"
    /\ UNCHANGED <<argv, latest, createAppCalls, log, spawned, ending, exitCode>>
    /\ UNCHANGED <<cwd, dirExists, dirExists0, dir0>>
    /\ UNCHANGED appVars

\* const originalDirectory = process.cwd(); process.chdir(root);
chdir ==
    /\ pc = "chdir"
    /\ originalDirectory' = cwd
    /\ cwd' = root
    /\ trace' = Append(trace, ev("createApp", "chdir", root))
    /\ pc' = "checkThatNpmCanReadCwd"
    /\ UNCHANGED <<argv, latest, createAppCalls, log, spawned, ending, exitCode>>
    /\ UNCHANGED <<dirExists, dir, dirExists0, dir0>>
    /\ UNCHANGED <<root, appName, safe, npmOk, reason, nameMessages, conflictReport>>

\* checkThatNpmCanReadCwd with createApp going on to run() on a mismatch.
checkThatNpmCanReadCwd_continues ==
    /\ pc = "checkThatNpmCanReadCwd"
    /\ spawned' = Append(spawned, "npm config list")
    /\ \E o \in NpmConfigOutcomes(cwd) :
         IF npmCanReadCwd(o, cwd)
         THEN /\ npmOk' = "ok"
              /\ UNCHANGED log
         ELSE /\ npmOk' = "mismatch"
              /\ log' = Append(log, "Could not start an npm process in the right directory.")
    /\ pc' = "run"
    /\ UNCHANGED <<argv, latest, createAppCalls, ending, exitCode>>
    /\ UNCHANGED <<root, appName, originalDirectory, safe, reason, nameMessages, conflictReport>>
    /\ UNCHANGED fsVars
    /\ UNCHANGED <<dirExists0, dir0>>

\* checkThatNpmCanReadCwd() and the `if` of createApp around it.
checkThatNpmCanReadCwd ==
    /\ pc = "checkThatNpmCanReadCwd"
    /\ spawned' = Append(spawned, "npm config list")
    /\ \E o \in NpmConfigOutcomes(cwd) :
         IF npmCanReadCwd(o, cwd)
         THEN /\ npmOk' = "ok"
              /\ pc' = "run"
              /\ UNCHANGED <<log, ending, exitCode>>
         ELSE /\ npmOk' = "mismatch"
              /\ log' = Append(log, "Could not start an npm process in the right directory.")
              /\ processExit(1)
    /\ UNCHANGED <<argv, latest, createAppCalls>>
    /\ UNCHANGED <<root, appName, originalDirectory, safe, reason, nameMessages, conflictReport>>
    /\ UNCHANGED fsVars
    /\ UNCHANGED <<dirExists0, dir0>>

\* run(root, appName, version, originalDirectory): the arguments are
\* evaluated first, and `version` is declared nowhere in the module, so the
\* call throws a ReferenceError unless the global object has a property of
\* that name.  When the call is made, run() hands Promise.all a function,
\* which is not iterable: the promise is rejected with a TypeError, the
\* function is never called, so install() never starts, and the catch
\* handler is queued with a reason that has no `command`.
callRun ==
    /\ pc = "run"
    /\ \E versionIsBound \in BOOLEAN :
         IF ~versionIsBound
         THEN /\ unhandledRejection
              /\ UNCHANGED reason
         ELSE /\ reason' = [command |-> ""]
              /\ pc' = "runCatch"
              /\ UNCHANGED <<ending, exitCode>>
    /\ UNCHANGED <<argv, latest, createAppCalls, log, spawned>>
    /\ UNCHANGED <<root, appName, originalDirectory, safe, npmOk, nameMessages, conflictReport>>
    /\ UNCHANGED fsVars
    /\ UNCHANGED <<dirExists0, dir0>>

\* The catch handler of run(): report, remove the known generated files,
\* remove the directory when nothing remains (after chdir to its parent),
\* exit 1.
runCatch ==
    /\ pc = "runCatch"
    /\ log' = log \o <<"Aborting installation.">>
                  \o (IF reason.command # ""
                      THEN <<reason.command \o " has failed.">>
                      ELSE <<"Unexpected error. Please report it as a bug:">>)
                  \o <<"Done.">>
    /\ LET remainingFiles == readdirSync(withoutGenerated(dir))
       IN  /\ dir' = withoutGenerated(dir)
           /\ IF Len(remainingFiles) = 0
              THEN /\ cwd' = parentOf(root)
                   /\ dirExists' = FALSE
                   /\ trace' = trace \o generatedRemovals(dir)
                                 \o <<ev("run", "chdir", parentOf(root)),
                                      ev("run", "removeSync", root)>>
              ELSE /\ trace' = trace \o generatedRemovals(dir)
                   /\ UNCHANGED <<cwd, dirExists>>
    /\ processExit(1)
    /\ UNCHANGED <<argv, latest, createAppCalls, spawned>>
    /\ UNCHANGED <<dirExists0, dir0>>
    /\ UNCHANGED appVars

----------------------------------------------------------------------------

Next ==
    \/ init
    \/ checkForLatestVersion
    \/ npmViewFallback
    \/ thenCreateApp
    \/ checkAppName
    \/ ensureDirSync
    \/ isSafeToCreateProjectIn
    \/ writeFileSync
    \/ chdir
    \/ checkThatNpmCanReadCwd
    \/ callRun
    \/ runCatch

Spec == Init /\ [][Next]_vars

----------------------------------------------------------------------------
(* Vocabulary of the properties.  The stale-log test and the parent test    *)
(* are written out here, apart from the operators the actions use.           *)

StaleLogPrefixes == {"npm-debug.log", "yarn-error.log", "yarn-debug.log"}

MatchesStaleLog(n) ==
    \E p \in StaleLogPrefixes : Len(n) >= Len(p) /\ SubSeq(n, 1, Len(p)) = p

EndsInIml(n) == Len(n) >= 4 /\ SubSeq(n, Len(n) - 3, Len(n)) = ".iml"

ReservedNames == {"express", "node-fetch"}

ManifestWritten == \E i \in 1..Len(trace) : trace[i].op = "writeFileSync"

ScanReturned == safe # "notRun"

\* The catch handler of run() has run to its end.
RolledBack == Len(log) > 0 /\ log[Len(log)] = "Done."

\* The line the conflict report holds for entry n of the initial directory.
ReportLine(n) == IF dir0[n].kind = "dir" THEN n \o "/" ELSE n

Reported == {conflictReport[i] : i \in 1..Len(conflictReport)}

\* The command line install(allDependencies) spawns:
\* npm install --no-audit --save --save-exact --loglevel error express node-fetch
InstallCommand == install(allDependencies, 1).command

----------------------------------------------------------------------------
(* C1 *)

\* C1: nothing is written into the target directory unless
\* isSafeToCreateProjectIn has returned true in this run: at every moment,
\* a writeFileSync call made, or an entry of the directory that is not the
\* user's, implies the scan has returned true; and once the scan has
\* reported conflicts the process has exited with status 1 with the
\* directory's entries as they were before the run and no write or removal
\* made.
C1_WriteOnlyAfterSafeScan ==
    /\ ManifestWritten => safe = "safe"
    /\ (\E n \in DOMAIN dir : dir[n].by # "user") => safe = "safe"
    /\ safe = "unsafe" =>
         /\ pc = "exited" /\ ending = "exit" /\ exitCode = 1
         /\ dir = dir0
         /\ \A i \in 1..Len(trace) : trace[i].op = "ensureDirSync"

\* A run over a directory that held entries, in which the manifest was written.
C1_Witness ==
    /\ ManifestWritten
    /\ "package.json" \in DOMAIN dir
    /\ DOMAIN dir0 # {}

----------------------------------------------------------------------------
(* C6 *)

\* C6: for every project name that fails the naming policy or is a reserved
\* dependency name, the run makes no file-system call at all (the directory
\* is not created, nothing is written or removed, the working directory
\* stays), and once createApp has been entered and the process has exited,
\* checkAppName has printed at least one message and the status is 1.
C6_InvalidNameTouchesNothing ==
    (createAppCalls > 0
       /\ (~validateProjectName(appName).validForNewPackages \/ appName \in ReservedNames))
    => /\ trace = <<>>
       /\ dirExists = dirExists0
       /\ dir = dir0
       /\ cwd = StartCwd
       /\ pc \in {"checkAppName", "exited"}
       /\ pc = "exited" => /\ Len(nameMessages) >= 1
                           /\ ending = "exit"
                           /\ exitCode = 1

\* The reserved name express, rejected, with the directory still absent.
C6_Witness ==
    /\ pc = "exited"
    /\ appName = "express"
    /\ Len(nameMessages) >= 1
    /\ ~dirExists

----------------------------------------------------------------------------
(* C8 *)

\* C8 as stated: the scan returns true exactly when every entry of the
\* directory is on the allow-list or matches the stale-log pattern.
C8_SafeIffAllowListedOrStaleLog ==
    ScanReturned =>
      (safe = "safe" <=> \A n \in DOMAIN dir0 : n \in validFiles \/ MatchesStaleLog(n))

\* C8, amended: the scan returns true exactly when every entry is on the
\* allow-list, matches the stale-log pattern or has a name ending in .iml;
\* when it returns false the report holds one line for each entry that is
\* none of the three, the name followed by "/" for a directory and the bare
\* name for a file, and no other line.
C8_SafeIffNoConflict ==
    LET Conflicting == {n \in DOMAIN dir0 :
                          ~(n \in validFiles \/ MatchesStaleLog(n) \/ EndsInIml(n))}
    IN  ScanReturned =>
          /\ safe = "safe" <=> Conflicting = {}
          /\ safe = "unsafe" =>
               /\ Reported = {ReportLine(n) : n \in Conflicting}
               /\ Len(conflictReport) = Cardinality(Conflicting)
          /\ safe = "safe" => conflictReport = <<>>

\* The scan has refused a directory holding .git and the file notes.txt,
\* reporting notes.txt alone.
C8_Witness ==
    /\ safe = "unsafe"
    /\ DOMAIN dir0 = {".git", "notes.txt"}
    /\ conflictReport = <<"notes.txt">>

----------------------------------------------------------------------------
(* C7 *)

\* C7 as stated: whatever else the directory holds, an entry matching the
\* stale-log pattern is gone once the scan has returned, and is not in the
\* conflict report.
C7_StaleLogAlwaysDeleted ==
    ScanReturned =>
      \A n \in DOMAIN dir0 :
        MatchesStaleLog(n) => n \notin DOMAIN dir /\ ReportLine(n) \notin Reported

\* C7, amended: an entry matching the stale-log pattern is never in the
\* conflict report; it is gone after the scan when the scan returns true,
\* and it is left as it was when the scan reports a conflict and returns
\* false.
C7_StaleLogDeletedWhenSafe ==
    ScanReturned =>
      \A n \in DOMAIN dir0 :
        MatchesStaleLog(n) =>
          /\ n \notin Reported /\ (n \o "/") \notin Reported
          /\ safe = "safe" => n \notin DOMAIN dir
          /\ safe = "unsafe" => n \in DOMAIN dir /\ dir[n] = dir0[n]

\* The scan has returned true on a directory that held yarn-debug.log.2 and
\* .git, and the log is gone while .git is still there.
C7_Witness ==
    /\ safe = "safe"
    /\ DOMAIN dir0 = {"yarn-debug.log.2", ".git"}
    /\ "yarn-debug.log.2" \notin DOMAIN dir
    /\ ".git" \in DOMAIN dir

----------------------------------------------------------------------------
(* C3 *)

\* C3 as stated: when checkThatNpmCanReadCwd returns false, no manifest has
\* been written and the working directory is the one the process started in.
C3_MismatchBeforeAnyMutation ==
    npmOk = "mismatch" =>
      /\ ~ManifestWritten
      /\ "package.json" \notin DOMAIN dir
      /\ cwd = StartCwd

\* C3, amended: when checkThatNpmCanReadCwd returns false the process has
\* exited with status 1 without calling run(): no rollback has run and no
\* install was started; the manifest createApp wrote is in the target
\* directory and the working directory is the target directory.
C3_MismatchExitsAfterWriteAndChdir ==
    npmOk = "mismatch" =>
      /\ pc = "exited" /\ ending = "exit" /\ exitCode = 1
      /\ "package.json" \in DOMAIN dir /\ dir["package.json"].by = "createApp"
      /\ dirExists
      /\ cwd = root /\ cwd # StartCwd /\ originalDirectory = StartCwd
      /\ ~RolledBack
      /\ \A i \in 1..Len(trace) : trace[i].fn # "run"
      /\ \A i \in 1..Len(spawned) : spawned[i] # InstallCommand

\* The check has failed for project a/b.
C3_Witness ==
    /\ npmOk = "mismatch"
    /\ pc = "exited"
    /\ argv = <<"a/b">>

----------------------------------------------------------------------------
(* C9 *)

----------------------------------------------------------------------------
(* C2 *)

----------------------------------------------------------------------------
(* C4, C5, C10 *)

\* C4: every run that fails after the manifest was written and the cwd
\* check passed (an install failure or an unexpected error) has run the
\* rollback before it ended, and ends with status 1.
C4_FailureAfterWriteRollsBack ==
    (pc = "exited" /\ ManifestWritten /\ npmOk = "ok"
       /\ ending \in {"exit", "uncaughtException", "unhandledRejection"})
    => RolledBack /\ exitCode = 1

\* C5: every run with a valid name, a safe directory and a passed cwd check
\* starts the install of express and node-fetch; a run that has ended
\* without starting it contradicts the claim.
C5_InstallStarted ==
    (pc = "exited" /\ safe = "safe" /\ npmOk = "ok")
    => \E i \in 1..Len(spawned) : spawned[i] = InstallCommand

\* C10: whatever the version check ends in, createApp is invoked exactly
\* once with the requested project name before the process ends.
C10_CreateAppAlwaysInvoked ==
    (pc = "exited" /\ argv # <<>>)
    => createAppCalls = 1 /\ root = pathResolve(StartCwd, argv[1])

====
